---- MODULE Spec2Model ----
(***************************************************************************)
(* A model of FileStoreHandler (filestore.go): a table of gob-serialized   *)
(* records (items map + ids slice) guarded by one sync.RWMutex and         *)
(* re-snapshotted to a database file after every structural mutation.      *)
(***************************************************************************)
EXTENDS Integers, Sequences, FiniteSets, TLC

(* ------------------------------ bounds -------------------------------- *)
NumProcs == 2       \* concurrent callers
MaxId    == 2       \* distinct record ids
MaxBatch == 2       \* longest Insert batch
MaxFailures == 1    \* writes of the database file that may fail
MaxRecs == 7        \* records of the tables Find is run on alone
MaxPage == 4        \* largest page asked of Find
MaxPerPage == 2     \* largest perPage asked of Find

Procs == 1..NumProcs
IDs   == 1..MaxId
\* version tags and payload values are opaque tokens for the handler
Tags  == {"e1", "e2"}
Vals  == {"x", "y"}

\* resource.Item, with Payload reduced to the value of the one field "f"
Item == [ID : IDs, ETag : Tags, Payload : Vals]
\* the parts of the `original` / `item` argument Update and Delete read
Original == [ID : IDs, ETag : Tags]
BatchesOf(S) == UNION {[1..n -> S] : n \in 0..MaxBatch}
Batches == BatchesOf(Item)
\* lookup.Filter(): the set of field values the predicate accepts
Lookups == SUBSET Vals

\* database_file does not exist
NoFile == [exists |-> FALSE, data |-> {}]
NoTable == [ids |-> <<>>, items |-> <<>>, file |-> NoFile]
NoOp == [kind |-> "none"]
NoRet == [err |-> "none", total |-> 0, list |-> <<>>]

VARIABLES
    ids,           \* self.ids
    items,         \* self.items : id -> serialized record
    file,          \* content of database_file, or NoFile
    Latency,       \* self.Latency (0 or a positive duration)
    UniqueFields,  \* self.UniqueFields
    writer,        \* callers holding the RWMutex in write mode
    readers,       \* callers holding the RWMutex in read mode
    pc,            \* position of each caller
    op,            \* arguments and locals of the call in progress
    ret,           \* what the call returns
    pre,           \* the table as it was when the caller took the lock
    failures,      \* writes of the database file that failed so far
    fresh          \* the table a new handler just loaded from the file

vars == <<ids, items, file, Latency, UniqueFields, writer, readers, pc, op,
          ret, pre, failures, fresh>>

(* ------------------------- serialization ------------------------------ *)
\* gob bytes of one item
serialize(item) == <<item.ID, item.ETag, item.Payload>>
\* gob.Decode of one item (fetch)
decode(data) == [ID |-> data[1], ETag |-> data[2], Payload |-> data[3]]
\* gob bytes of the items map
serializeMap(m) == {<<k, m[k]>> : k \in DOMAIN m}
decodeMap(s) == [k \in {e[1] : e \in s} |-> (CHOOSE e \in s : e[1] = k)[2]]

\* every order in which `range` may walk the keys of a map
Orders(S) == {s \in [1..Cardinality(S) -> S] :
                 \A i, j \in 1..Cardinality(S) : i # j => s[i] # s[j]}

MapSet(m, k, v) == [x \in DOMAIN m \cup {k} |-> IF x = k THEN v ELSE m[x]]
MapDelete(m, k) == [x \in DOMAIN m \ {k} |-> m[x]]

Table == [ids |-> ids, items |-> items, file |-> file]

(* ------------------------- persistence -------------------------------- *)
\* readDatafile without `self.ids = nil`: the keys are appended to the old ids
readDatafileKeepIds(t) ==
    IF ~t.file.exists THEN {t}
    ELSE LET m == decodeMap(t.file.data)
         IN  {[t EXCEPT !.items = m, !.ids = t.ids \o s] : s \in Orders(DOMAIN m)}

\* the tables readDatafile may leave: the file's map, ids in map-range order
readDatafile(t) ==
    IF ~t.file.exists THEN {t}
    ELSE LET m == decodeMap(t.file.data)
         IN  {[t EXCEPT !.items = m, !.ids = s] : s \in Orders(DOMAIN m)}

\* ioutil.WriteFile succeeded
saveDatafile(t) == [t EXCEPT !.file = [exists |-> TRUE, data |-> serializeMap(t.items)]]

\* a persistence cycle that goes through although a step of it failed
persistDataRetries(t, io) ==
    {[t |-> r, panic |-> FALSE] : r \in readDatafile(saveDatafile(t))}

\* outcomes of persistData: [t, panic]; saveDatafile panics before the file
\* is written ("writeErr"), or readDatafile panics before it touches the
\* map ("readErr")
persistData(t, io) ==
    IF io = "writeErr" THEN {[t |-> t, panic |-> TRUE]}
    ELSE IF io = "readErr" THEN {[t |-> saveDatafile(t), panic |-> TRUE]}
    ELSE {[t |-> r, panic |-> FALSE] : r \in readDatafile(saveDatafile(t))}

\* store: serialize (return its error), put in the map, persist
store(t, item, io) ==
    IF io = "encodeErr" THEN {[t |-> t, panic |-> FALSE, err |-> "ErrEncode"]}
    ELSE {[t |-> r.t, panic |-> r.panic, err |-> "nil"] :
            r \in persistData([t EXCEPT !.items =
                                  MapSet(t.items, item.ID, serialize(item))], io)}

\* fetch: found flag and decoded item
fetch(t, id) ==
    IF id \in DOMAIN t.items
    THEN [found |-> TRUE, item |-> decode(t.items[id])]
    ELSE [found |-> FALSE]

\* a record got from fetch that shares its storage with the table
writeFetchedShared(t, item) ==
    [t EXCEPT !.items = MapSet(t.items, item.ID, serialize(item))]
\* the table after a caller writes item over a record it got from fetch:
\* fetch decodes the stored bytes into a new resource.Item
writeFetched(t, item) == t

\* a version check that lets every tag through
etagDiffersNever(given, stored) == FALSE
\* original.ETag != o.ETag
etagDiffers(given, stored) == given # stored

RemoveAt(s, i) == SubSeq(s, 1, i - 1) \o SubSeq(s, i + 1, Len(s))

\* delete: drop the map entry and the first occurrence in ids, persist
delete(t, id, io) ==
    LET hits == {i \in 1..Len(t.ids) : t.ids[i] = id}
        first == CHOOSE i \in hits : \A j \in hits : i <= j
        nids == IF hits = {} THEN t.ids ELSE RemoveAt(t.ids, first)
    IN  persistData([t EXCEPT !.items = MapDelete(t.items, id), !.ids = nids], io)

(* ----------------------------- queries -------------------------------- *)
\* handleWithLatency: which branch of the select runs
handleWithLatency(latency, canceled) ==
    IF latency = 0 THEN "handler"
    ELSE IF canceled THEN "ctxErr" ELSE "handler"

\* Match with its sense inverted (the `!` of line 268 lost)
MatchNegated(lookup, payload) == payload \notin lookup
\* lookup.Filter().Match(item.Payload)
Match(lookup, payload) == payload \in lookup

\* the filter loop of findNoLock: the decoded items whose payload matches
filter(t, lookup) ==
    LET all == [i \in 1..Len(t.ids) |-> decode(t.items[t.ids[i]])]
    IN  SelectSeq(all, LAMBDA it : Match(lookup, it.Payload))

\* the pagination of findNoLock without the clamp of end to total
paginateNoClamp(list, page, perPage) ==
    LET total == Len(list)
        start0 == (page - 1) * perPage
        end0 == start0 + perPage
        start == IF perPage > 0 /\ start0 > total - 1 THEN 0 ELSE start0
        end == IF perPage <= 0 THEN total
               ELSE IF start0 > total - 1 THEN 0
               ELSE end0
    IN  IF 0 <= start /\ start <= end /\ end <= total
        THEN [err |-> "nil", total |-> total, list |-> SubSeq(list, start + 1, end)]
        ELSE [err |-> "panic", total |-> 0, list |-> <<>>]

\* the pagination of findNoLock; items[start:end] panics on bad bounds
paginate(list, page, perPage) ==
    LET total == Len(list)
        start0 == (page - 1) * perPage
        end0 == start0 + perPage
        start == IF perPage > 0 /\ start0 > total - 1 THEN 0 ELSE start0
        end == IF perPage <= 0 THEN total
               ELSE IF start0 > total - 1 THEN 0
               ELSE IF end0 > total - 1 THEN total
               ELSE end0
    IN  IF 0 <= start /\ start <= end /\ end <= total
        THEN [err |-> "nil", total |-> total, list |-> SubSeq(list, start + 1, end)]
        ELSE [err |-> "panic", total |-> 0, list |-> <<>>]

\* the order of the values of the sort field
Rank(v) == IF v = "x" THEN 1 ELSE 2
\* lookup.Sort(): no sort, or the payload field ascending
Sorts == {<<>>, <<"f">>}
\* sortableItems.Less: compare two records by the field list
Less(sort, a, b) == Rank(a.Payload) < Rank(b.Payload)

Swap(s, i, j) == [s EXCEPT ![i] = s[j], ![j] = s[i]]

\* the inner loop of insertionSort: s[j] moves left while it is less
RECURSIVE sinkLeft(_, _, _)
sinkLeft(s, sort, j) ==
    IF j > 1 /\ Less(sort, s[j], s[j - 1])
    THEN sinkLeft(Swap(s, j, j - 1), sort, j - 1)
    ELSE s

RECURSIVE insertionSort(_, _, _)
insertionSort(s, sort, i) ==
    IF i > Len(s) THEN s
    ELSE insertionSort(sinkLeft(s, sort, i), sort, i + 1)

\* the pass with gap 6 that sort.Sort makes before insertionSort in the
\* toolchains whose quickSort handles 12 elements or fewer this way
RECURSIVE shellPass(_, _, _)
shellPass(s, sort, i) ==
    IF i > Len(s) THEN s
    ELSE shellPass(IF Less(sort, s[i], s[i - 6]) THEN Swap(s, i, i - 6) ELSE s,
                   sort, i + 1)

\* sort.Sort(s) on at most 12 elements: insertionSort alone, or after the
\* gap-6 pass (shell), as the toolchain has it
sortSort(list, sort, shell) ==
    insertionSort(IF shell THEN shellPass(list, sort, 7) ELSE list, sort, 2)

\* the handler of findNoLock; a nil item panics on item.Payload
findNoLock(t, lookup, sort, shell, page, perPage) ==
    IF \E i \in 1..Len(t.ids) : ~fetch(t, t.ids[i]).found
    THEN [err |-> "panic", total |-> 0, list |-> <<>>]
    ELSE LET matching == filter(t, lookup)
             sorted == IF Len(sort) > 0 THEN sortSort(matching, sort, shell)
                       ELSE matching
         IN  paginate(sorted, page, perPage)

\* Insert's uniqueness sub-query for one item
uniqueCheck(t, item, uniqueFields, latency, canceled) ==
    IF Len(uniqueFields) = 0 THEN "nil"
    ELSE IF handleWithLatency(latency, canceled) = "ctxErr" THEN "Canceled"
    ELSE LET res == findNoLock(t, {item.Payload}, <<>>, FALSE, 1, -1)
         IN  IF res.err # "nil" THEN res.err
             ELSE IF Len(res.list) > 0 THEN "Err422"
             ELSE "nil"

\* Insert's first loop looking at the first item only
insertCheckFirst(t, batch, i, uniqueFields, latency, cancelAt) ==
    IF i > Len(batch) THEN "nil"
    ELSE IF fetch(t, batch[i].ID).found THEN "ErrConflict"
    ELSE uniqueCheck(t, batch[i], uniqueFields, latency, cancelAt # 0 /\ i >= cancelAt)

\* Insert's first loop from item i on; the context is canceled from the
\* cancelAt-th sub-query on (0: never)
RECURSIVE insertCheck(_, _, _, _, _, _)
insertCheck(t, batch, i, uniqueFields, latency, cancelAt) ==
    IF i > Len(batch) THEN "nil"
    ELSE IF fetch(t, batch[i].ID).found THEN "ErrConflict"
    ELSE LET u == uniqueCheck(t, batch[i], uniqueFields, latency,
                              cancelAt # 0 /\ i >= cancelAt)
         IN  IF u # "nil" THEN u
             ELSE insertCheck(t, batch, i + 1, uniqueFields, latency, cancelAt)

(* ------------------------------ the lock ------------------------------ *)
\* a write lock that does not wait for another writer
CanLockOverWriter == readers = {}
\* a write lock that does not wait for the readers
CanLockOverReaders == writer = {}
\* sync.RWMutex: Lock waits for every holder, RLock for the writer
CanLock == writer = {} /\ readers = {}
CanRLock == writer = {}
\* a uniqueness sub-query that goes through Find, and so through RLock
subQueryRLocks == CanRLock
\* Insert's uniqueness sub-query calls findNoLock, which takes no lock
subQueryCanRun == TRUE

NoFresh == [loaded |-> FALSE]
\* the outcomes of a persistence cycle: done, or one of its steps failed
IOResults == {"ok"} \cup {e \in {"writeErr", "readErr"} : failures < MaxFailures}
\* the outcomes of store: those, or gob fails to encode the item
StoreResults == IOResults \cup {e \in {"encodeErr"} : failures < MaxFailures}
IO(io) == failures' = IF io = "ok" THEN failures ELSE failures + 1
\* nothing has failed so far
clean == failures = 0
SetTable(t) == ids' = t.ids /\ items' = t.items /\ file' = t.file
Config == <<Latency, UniqueFields>>

\* the caller returns err (the deferred Unlock has not run yet)
Return(p, r) ==
    /\ ret' = [ret EXCEPT ![p] = r]
    /\ pc' = [pc EXCEPT ![p] = "unlock"]
Err(e) == [err |-> e, total |-> 0, list |-> <<>>]

(* ------------------------------ actions ------------------------------- *)
\* Insert, Update, Delete, Clear: self.Lock()
Lock(p, kind) ==
    /\ pc[p] = "idle"
    /\ CanLock
    /\ writer' = writer \cup {p}
    /\ pc' = [pc EXCEPT ![p] = "latency"]
    /\ op' = [op EXCEPT ![p] = [kind |-> kind]]
    /\ pre' = [pre EXCEPT ![p] = Table]
    /\ fresh' = NoFresh
    /\ UNCHANGED <<ids, items, file, Config, readers, ret, failures>>

\* Find: self.RLock()
RLock(p) ==
    /\ pc[p] = "idle"
    /\ CanRLock
    /\ readers' = readers \cup {p}
    /\ pc' = [pc EXCEPT ![p] = "latency"]
    /\ op' = [op EXCEPT ![p] = [kind |-> "Find"]]
    /\ pre' = [pre EXCEPT ![p] = Table]
    /\ fresh' = NoFresh
    /\ UNCHANGED <<ids, items, file, Config, writer, ret, failures>>

\* handleWithLatency around the operation's handler
Wait(p) ==
    /\ pc[p] = "latency"
    /\ \E canceled \in BOOLEAN :
         IF handleWithLatency(Latency, canceled) = "handler"
         THEN /\ pc' = [pc EXCEPT ![p] = "body"]
              /\ UNCHANGED <<op, ret>>
         ELSE IF op[p].kind = "Clear"
         THEN \* Clear goes on to persistData with the error in hand
              /\ pc' = [pc EXCEPT ![p] = "persist"]
              /\ op' = [op EXCEPT ![p] = [kind |-> "Clear", total |-> 0, err |-> "Canceled"]]
              /\ UNCHANGED ret
         ELSE /\ Return(p, Err("Canceled"))
              /\ UNCHANGED op
    /\ fresh' = NoFresh
    /\ UNCHANGED <<ids, items, file, Config, writer, readers, pre, failures>>

\* Insert's handler up to the end of its first loop
InsertCheckIn(p, batches) ==
    /\ pc[p] = "body" /\ op[p].kind = "Insert"
    /\ Len(UniqueFields) > 0 => subQueryCanRun
    /\ \E batch \in batches, cancelAt \in 0..MaxBatch :
         /\ cancelAt <= Len(batch)
         /\ LET e == insertCheck(Table, batch, 1, UniqueFields, Latency, cancelAt)
            IN  IF e # "nil" \/ Len(batch) = 0
                THEN /\ Return(p, Err(e))
                     /\ op' = [op EXCEPT ![p] = [kind |-> "Insert", batch |-> batch, i |-> 1]]
                ELSE /\ pc' = [pc EXCEPT ![p] = "store"]
                     /\ op' = [op EXCEPT ![p] = [kind |-> "Insert", batch |-> batch, i |-> 1]]
                     /\ UNCHANGED ret
    /\ fresh' = NoFresh
    /\ UNCHANGED <<ids, items, file, Config, writer, readers, pre, failures>>

InsertCheck(p) == InsertCheckIn(p, Batches)

\* one round of Insert's second loop: append the id, store the item
InsertStore(p) ==
    /\ pc[p] = "store"
    /\ LET item == op[p].batch[op[p].i]
           t1 == [Table EXCEPT !.ids = Append(ids, item.ID)]
       IN  \E io \in StoreResults : \E r \in store(t1, item, io) :
             /\ SetTable(r.t) /\ IO(io)
             /\ op' = [op EXCEPT ![p].i = IF r.err = "nil" THEN @ + 1 ELSE @]
             /\ IF r.panic THEN Return(p, Err("panic"))
                ELSE IF r.err # "nil" THEN Return(p, Err(r.err))
                ELSE IF op[p].i = Len(op[p].batch) THEN Return(p, Err("nil"))
                ELSE UNCHANGED <<pc, ret>>
    /\ fresh' = NoFresh
    /\ UNCHANGED <<Config, writer, readers, pre>>

\* Update's handler
UpdateIn(p, newItems) ==
    /\ pc[p] = "body" /\ op[p].kind = "Update"
    /\ \E item \in newItems, original \in Original :
         /\ op' = [op EXCEPT ![p] = [kind |-> "Update", item |-> item, original |-> original]]
         /\ LET o == fetch(Table, original.ID)
            IN  IF ~o.found
                THEN Return(p, Err("ErrNotFound")) /\ UNCHANGED <<ids, items, file, failures>>
                ELSE IF etagDiffers(original.ETag, o.item.ETag)
                THEN Return(p, Err("ErrConflict")) /\ UNCHANGED <<ids, items, file, failures>>
                ELSE \E io \in StoreResults : \E r \in store(Table, item, io) :
                       /\ SetTable(r.t) /\ IO(io)
                       /\ Return(p, Err(IF r.panic THEN "panic" ELSE r.err))
    /\ fresh' = NoFresh
    /\ UNCHANGED <<Config, writer, readers, pre>>

Update(p) == UpdateIn(p, Item)

\* Delete's handler
Delete(p) ==
    /\ pc[p] = "body" /\ op[p].kind = "Delete"
    /\ \E item \in Original :
         /\ op' = [op EXCEPT ![p] = [kind |-> "Delete", item |-> item]]
         /\ LET o == fetch(Table, item.ID)
            IN  IF ~o.found
                THEN Return(p, Err("ErrNotFound")) /\ UNCHANGED <<ids, items, file, failures>>
                ELSE IF etagDiffers(item.ETag, o.item.ETag)
                THEN Return(p, Err("ErrConflict")) /\ UNCHANGED <<ids, items, file, failures>>
                ELSE \E io \in IOResults : \E r \in delete(Table, item.ID, io) :
                       /\ SetTable(r.t) /\ IO(io)
                       /\ Return(p, Err(IF r.panic THEN "panic" ELSE "nil"))
    /\ fresh' = NoFresh
    /\ UNCHANGED <<Config, writer, readers, pre>>

\* Clear's handler: copy the ids
ClearCopy(p) ==
    /\ pc[p] = "body" /\ op[p].kind = "Clear"
    /\ \E lookup \in Lookups :
         op' = [op EXCEPT ![p] = [kind |-> "Clear", lookup |-> lookup, snap |-> ids,
                                  i |-> 1, total |-> 0, err |-> "nil"]]
    /\ pc' = [pc EXCEPT ![p] = IF Len(ids) = 0 THEN "persist" ELSE "clear"]
    /\ fresh' = NoFresh
    /\ UNCHANGED <<ids, items, file, Config, writer, readers, ret, pre, failures>>

\* one round of Clear's loop over the copied ids
ClearStep(p) ==
    /\ pc[p] = "clear"
    /\ LET id == op[p].snap[op[p].i]
           o == fetch(Table, id)
           next == IF op[p].i = Len(op[p].snap) THEN "persist" ELSE "clear"
       IN  IF ~o.found
           THEN \* item is nil: item.Payload panics
                /\ Return(p, Err("panic"))
                /\ UNCHANGED <<ids, items, file, op, failures>>
           ELSE IF ~Match(op[p].lookup, o.item.Payload)
           THEN /\ op' = [op EXCEPT ![p].i = @ + 1]
                /\ pc' = [pc EXCEPT ![p] = next]
                /\ UNCHANGED <<ids, items, file, ret, failures>>
           ELSE \E io \in IOResults : \E r \in delete(Table, o.item.ID, io) :
                  /\ SetTable(r.t) /\ IO(io)
                  /\ IF r.panic
                     THEN Return(p, Err("panic")) /\ UNCHANGED op
                     ELSE /\ op' = [op EXCEPT ![p].i = @ + 1, ![p].total = @ + 1]
                          /\ pc' = [pc EXCEPT ![p] = next]
                          /\ UNCHANGED ret
    /\ fresh' = NoFresh
    /\ UNCHANGED <<Config, writer, readers, pre>>

\* Clear's persistData after handleWithLatency returned
ClearPersist(p) ==
    /\ pc[p] = "persist"
    /\ \E io \in IOResults : \E r \in persistData(Table, io) :
         /\ SetTable(r.t) /\ IO(io)
         /\ IF r.panic THEN Return(p, Err("panic"))
            ELSE Return(p, [err |-> op[p].err, total |-> op[p].total, list |-> <<>>])
    /\ fresh' = NoFresh
    /\ UNCHANGED <<Config, writer, readers, op, pre>>

\* Find's handler (findNoLock under the read lock)
FindIn(p, lookups, sorts, pages, perPages) ==
    /\ pc[p] = "body" /\ op[p].kind = "Find"
    /\ \E lookup \in lookups, sort \in sorts, shell \in BOOLEAN,
          page \in pages, perPage \in perPages :
         /\ Len(sort) = 0 => ~shell
         /\ op' = [op EXCEPT ![p] = [kind |-> "Find", lookup |-> lookup,
                                     sort |-> sort, shell |-> shell,
                                     page |-> page, perPage |-> perPage,
                                     edited |-> FALSE]]
         /\ Return(p, findNoLock(Table, lookup, sort, shell, page, perPage))
    /\ fresh' = NoFresh
    /\ UNCHANGED <<ids, items, file, Config, writer, readers, pre, failures>>

Find(p) == FindIn(p, Lookups, {<<>>}, {1}, {-1, 1})

\* the deferred Unlock / RUnlock
Unlock(p) ==
    /\ pc[p] = "unlock"
    /\ writer' = writer \ {p}
    /\ readers' = readers \ {p}
    /\ pc' = [pc EXCEPT ![p] = "idle"]
    /\ op' = [op EXCEPT ![p] = NoOp]
    /\ ret' = [ret EXCEPT ![p] = NoRet]
    /\ pre' = [pre EXCEPT ![p] = NoTable]
    /\ fresh' = NoFresh
    /\ UNCHANGED <<ids, items, file, Config, failures>>

\* NewHandler in a new process on the same directory, once the callers of
\* this one are done: readDatafile into an empty table
NewHandler ==
    /\ ~fresh.loaded
    /\ \A p \in Procs : pc[p] = "idle"
    /\ \E r \in readDatafile([NoTable EXCEPT !.file = file]) :
         fresh' = [loaded |-> TRUE, ids |-> r.ids, items |-> r.items]
    /\ UNCHANGED <<ids, items, file, Config, writer, readers, pc, op, ret, pre, failures>>

\* NewHandler on a directory without a database file
Init ==
    /\ ids = <<>> /\ items = <<>> /\ file = NoFile
    /\ Latency \in {0, 1}
    /\ UniqueFields \in {<<>>, <<"f">>}
    /\ writer = {} /\ readers = {}
    /\ pc = [p \in Procs |-> "idle"]
    /\ op = [p \in Procs |-> NoOp]
    /\ ret = [p \in Procs |-> NoRet]
    /\ pre = [p \in Procs |-> NoTable]
    /\ failures = 0
    /\ fresh = NoFresh

Next ==
    \/ \E p \in Procs : \E kind \in {"Insert", "Update", "Delete", "Clear"} : Lock(p, kind)
    \/ \E p \in Procs : RLock(p)
    \/ \E p \in Procs : Wait(p)
    \/ \E p \in Procs : InsertCheck(p)
    \/ \E p \in Procs : InsertStore(p)
    \/ \E p \in Procs : Update(p)
    \/ \E p \in Procs : Delete(p)
    \/ \E p \in Procs : ClearCopy(p)
    \/ \E p \in Procs : ClearStep(p)
    \/ \E p \in Procs : ClearPersist(p)
    \/ \E p \in Procs : Find(p)
    \/ \E p \in Procs : Unlock(p)
    \/ NewHandler

Spec == Init /\ [][Next]_vars

(* ------------- every caller, with fewer records to write ------------- *)
\* the items callers give when it is the release of the lock that matters
NewItems == {it \in Item : it.ETag = "e1"}

\* the steps of caller p once it holds the lock
Step(p) ==
    \/ Wait(p)
    \/ InsertCheckIn(p, BatchesOf(NewItems))
    \/ InsertStore(p)
    \/ UpdateIn(p, NewItems)
    \/ Delete(p)
    \/ ClearCopy(p)
    \/ ClearStep(p)
    \/ ClearPersist(p)
    \/ Find(p)
    \/ Unlock(p)

NextLive ==
    \/ \E p \in Procs : \E kind \in {"Insert", "Update", "Delete", "Clear"} : Lock(p, kind)
    \/ \E p \in Procs : RLock(p)
    \/ \E p \in Procs : Step(p)

\* a goroutine that holds the lock keeps running: time.After fires, the
\* handler runs to its return or panic, the deferred Unlock runs
SpecLive == Init /\ [][NextLive]_vars /\ \A p \in Procs : WF_vars(Step(p))

(* ------------------- Find alone, on tables of any size ---------------- *)
\* a handler whose table holds the records 1..n, inserted in that order
InitFind ==
    /\ \E n \in 0..MaxRecs : \E payload \in [1..n -> Vals] :
         /\ ids = [i \in 1..n |-> i]
         /\ items = [k \in 1..n |->
                        serialize([ID |-> k, ETag |-> "e1", Payload |-> payload[k]])]
         /\ file = saveDatafile([ids |-> ids, items |-> items, file |-> NoFile]).file
    /\ Latency \in {0, 1}
    /\ UniqueFields = <<>>
    /\ writer = {} /\ readers = {}
    /\ pc = [p \in Procs |-> "idle"]
    /\ op = [p \in Procs |-> NoOp]
    /\ ret = [p \in Procs |-> NoRet]
    /\ pre = [p \in Procs |-> NoTable]
    /\ failures = 0
    /\ fresh = NoFresh

\* the caller of a Find that has returned changes one record of the list
\* (placed before the step that forgets the result)
CallerEdits(p) ==
    /\ pc[p] = "unlock" /\ op[p].kind = "Find" /\ "edited" \in DOMAIN op[p]
    /\ ~op[p].edited
    /\ \E j \in 1..Len(ret[p].list), v \in Vals :
         /\ v # ret[p].list[j].Payload
         /\ LET item == [ret[p].list[j] EXCEPT !.Payload = v]
            IN  /\ ret' = [ret EXCEPT ![p].list[j] = item]
                /\ SetTable(writeFetched(Table, item))
    /\ op' = [op EXCEPT ![p].edited = TRUE]
    /\ fresh' = NoFresh
    /\ UNCHANGED <<Config, writer, readers, pc, pre, failures>>

FindPaged(p) == FindIn(p, Lookups, Sorts, 0..MaxPage, (0 - 1)..MaxPerPage)

\* one caller calling Find over and over
NextFind ==
    \/ RLock(1)
    \/ Wait(1)
    \/ FindPaged(1)
    \/ CallerEdits(1)
    \/ Unlock(1)

SpecFind == InitFind /\ [][NextFind]_vars

(* ------------------------------ claims -------------------------------- *)
\* the ids are the keys of the map, each once
Consistent(t) ==
    /\ {t.ids[i] : i \in 1..Len(t.ids)} = DOMAIN t.items
    /\ \A i, j \in 1..Len(t.ids) : i # j => t.ids[i] # t.ids[j]

\* p holds the lock and has returned from its handler
Returned(p, kind) == pc[p] = "unlock" /\ op[p].kind = kind
\* no writer is between two steps of its handler
Quiescent == \A p \in writer : pc[p] = "unlock"

\* C1: after any sequence of successful Insert, Update, Delete and Clear
\* calls, seen when no writer is inside its handler, the id sequence and the
\* key set of the map are equal as sets and no id is in the sequence twice.
IdsAreKeys == (clean /\ Quiescent) => Consistent(Table)

\* an Insert of a batch that carries one new id twice has returned nil
DuplicateBatchStored ==
    \E p \in Procs :
        /\ Returned(p, "Insert") /\ ret[p].err = "nil" /\ clean
        /\ Len(op[p].batch) = 2
        /\ op[p].batch[1].ID = op[p].batch[2].ID

\* a record of the batch has an id of the table t, or the value of a stored
\* record in a configured uniqueness field
Offending(t, batch) ==
    \E i \in 1..Len(batch) :
        \/ batch[i].ID \in DOMAIN t.items
        \/ /\ Len(UniqueFields) > 0
           /\ \E k \in DOMAIN t.items : decode(t.items[k]).Payload = batch[i].Payload

\* p is in Insert with its batch in hand
InInsert(p) == pc[p] \in {"store", "unlock"} /\ op[p].kind = "Insert" /\ "batch" \in DOMAIN op[p]

\* C2: when a record of an Insert batch has an id that is in the table, or
\* the value of a stored record in a configured uniqueness field, Insert
\* stores nothing (ids, map and file stay as they were when it took the
\* lock) and returns a Conflict-class error, or Canceled when the context
\* ended in the latency of a uniqueness sub-query; the table being one no
\* failed write has left out of step.
InsertAllOrNothing ==
    \A p \in Procs :
        (InInsert(p) /\ clean /\ Offending(pre[p], op[p].batch)) =>
            /\ pc[p] = "unlock"
            /\ Table = pre[p]
            /\ \/ ret[p].err \in {"ErrConflict", "Err422"}
               \/ ret[p].err = "Canceled" /\ Latency # 0 /\ Len(UniqueFields) > 0

\* an Insert whose second record alone offends has returned
SecondRecordOffends ==
    \E p \in Procs :
        /\ Returned(p, "Insert") /\ clean /\ "batch" \in DOMAIN op[p]
        /\ Len(op[p].batch) = 2
        /\ ~Offending(pre[p], <<op[p].batch[1]>>)
        /\ Offending(pre[p], <<op[p].batch[2]>>)
        /\ ret[p].err \in {"ErrConflict", "Err422"}
        /\ ids # <<>>

\* the id and version tag Update or Delete was called with
Target(p) == IF op[p].kind = "Update" THEN op[p].original ELSE op[p].item
InUpdateOrDelete(p) ==
    /\ pc[p] = "unlock" /\ op[p].kind \in {"Update", "Delete"}
    /\ (op[p].kind = "Update" => "original" \in DOMAIN op[p])
    /\ (op[p].kind = "Delete" => "item" \in DOMAIN op[p])

\* C3: Update or Delete with a version tag that is not the stored record's
\* returns ErrConflict, and on an absent id ErrNotFound; either way the
\* stored bytes of the record, the id sequence and the file are as they
\* were when the call took the lock.
StaleTagRejected ==
    \A p \in Procs :
        InUpdateOrDelete(p) =>
            LET t == Target(p)
            IN  /\ t.ID \notin DOMAIN pre[p].items =>
                      ret[p].err = "ErrNotFound" /\ Table = pre[p]
                /\ (t.ID \in DOMAIN pre[p].items
                    /\ decode(pre[p].items[t.ID]).ETag # t.ETag) =>
                      ret[p].err = "ErrConflict" /\ Table = pre[p]

\* an Update or a Delete with a stale tag has been turned away, the record
\* still stored
StaleTagSeen ==
    \E p \in Procs :
        /\ InUpdateOrDelete(p)
        /\ Target(p).ID \in DOMAIN pre[p].items
        /\ decode(pre[p].items[Target(p).ID]).ETag # Target(p).ETag
        /\ ret[p].err = "ErrConflict"

\* C4: after any successful mutation, a table loaded from the database
\* file by a new handler has the id order and the records of the table in
\* memory.
ReloadEqualsMemory ==
    (fresh.loaded /\ clean) => (fresh.ids = ids /\ fresh.items = items)

\* a step in which the handler of p returns nil, no write having failed
Succeeds(p, kind) ==
    /\ failures' = 0
    /\ pc[p] = "body" /\ op[p].kind = kind
    /\ pc'[p] = "unlock" /\ ret'[p].err = "nil"
Without(s, id) == SelectSeq(s, LAMBDA x : x # id)

\* C5: Find with no sort returns the records in insertion order after any
\* mutations: a Delete leaves the other ids in their relative order, an
\* Update leaves the record at its position, and Find walks the ids in
\* their order.
InsertionOrderKept ==
    [][\A p \in Procs :
          /\ Succeeds(p, "Delete") => ids' = Without(ids, op'[p].item.ID)
          /\ (Succeeds(p, "Update") /\ op'[p].item.ID = op'[p].original.ID) => ids' = ids
          /\ (Succeeds(p, "Find") /\ op'[p].perPage <= 0 /\ op'[p].lookup = Vals) =>
                [i \in 1..Len(ret'[p].list) |-> ret'[p].list[i].ID] = ids
      ]_vars

\* p is inside its critical section
InCS(p) == pc[p] # "idle"
Mutates(p) == op[p].kind \in {"Insert", "Update", "Delete", "Clear"}

\* C6: while an Insert, Update, Delete or Clear is inside its critical
\* section no other operation is inside its own; Finds may share theirs.
WritersExclude ==
    \A p, q \in Procs : (p # q /\ InCS(p) /\ Mutates(p)) => ~InCS(q)

\* two Finds are inside their critical sections at once
TwoFindsInside ==
    \E p, q \in Procs :
        /\ p # q
        /\ pc[p] = "body" /\ op[p].kind = "Find"
        /\ pc[q] = "body" /\ op[q].kind = "Find"

\* the map m after the first n items of the batch were stored
RECURSIVE Stored(_, _, _)
Stored(m, batch, n) ==
    IF n = 0 THEN m
    ELSE MapSet(Stored(m, batch, n - 1), batch[n].ID, serialize(batch[n]))

\* the keys of m whose record matches the lookup
Matching(m, lookup) == {k \in DOMAIN m : decode(m[k]).Payload \in lookup}
\* the map m without the keys in K
Minus(m, K) == [k \in DOMAIN m \ K |-> m[k]]

\* what the mutation of p, run alone on the table p found when it took the
\* lock, has made of the map by now
Effect(p) ==
    LET m == pre[p].items
        o == op[p]
    IN  CASE o.kind = "Insert" /\ "batch" \in DOMAIN o -> Stored(m, o.batch, o.i - 1)
          [] o.kind = "Update" /\ pc[p] = "unlock" /\ ret[p].err = "nil" ->
                MapSet(m, o.item.ID, serialize(o.item))
          [] o.kind = "Delete" /\ pc[p] = "unlock" /\ ret[p].err = "nil" ->
                Minus(m, {o.item.ID})
          [] o.kind = "Clear" /\ "snap" \in DOMAIN o ->
                Minus(m, {o.snap[j] : j \in 1..(o.i - 1)} \cap Matching(m, o.lookup))
          [] OTHER -> m

\* C7: the snapshots in the database file are those of one serial order of
\* the mutations, the order of their write locks: the file changes only
\* in a step of the one caller inside a critical section, and while a
\* mutation holds the lock the map is the one it found with its own steps
\* applied, the file being the one it found or the snapshot of that map.
SnapshotsSerial ==
    /\ [](\A p \in Procs :
            (p \in writer /\ ret[p].err # "panic") =>
                /\ items = Effect(p)
                /\ \/ file = pre[p].file
                   \/ file = [exists |-> TRUE, data |-> serializeMap(items)])
    /\ [][file' # file =>
            \E p \in Procs :
                /\ writer = {p} /\ readers = {}
                /\ \A q \in Procs \ {p} : pc[q] = "idle"]_vars

\* an Insert has written the snapshot of its first record over the
\* snapshot of earlier mutations and is about to store its second
SnapshotMidBatch ==
    \E p \in Procs :
        /\ pc[p] = "store" /\ op[p].i = 2
        /\ pre[p].file.exists /\ pre[p].file.data # {}
        /\ file # pre[p].file
        /\ failures = 0

\* C9: a Clear that returns nil has removed the records that matched its
\* lookup when it took the lock and no other, left the stored bytes of the
\* others as they were, returned the number removed, and a Find with no
\* predicate returns none of the removed.
ClearRemovesMatching ==
    \A p \in Procs :
        (Returned(p, "Clear") /\ ret[p].err = "nil" /\ Consistent(pre[p])) =>
            LET M == Matching(pre[p].items, op[p].lookup)
                found == findNoLock(Table, Vals, <<>>, FALSE, 1, -1)
            IN  /\ items = Minus(pre[p].items, M)
                /\ {ids[i] : i \in 1..Len(ids)} = DOMAIN pre[p].items \ M
                /\ ret[p].total = Cardinality(M)
                /\ found.err = "nil"
                /\ \A i \in 1..Len(found.list) : found.list[i].ID \notin M

\* a Clear has removed one record of two
ClearRemovedOne ==
    \E p \in Procs :
        /\ Returned(p, "Clear") /\ ret[p].err = "nil" /\ Consistent(pre[p])
        /\ Len(pre[p].ids) = 2 /\ ret[p].total = 1 /\ Len(ids) = 1

\* p was canceled in the latency before its handler
CanceledInLatency(p) ==
    /\ pc[p] = "unlock" /\ Mutates(p)
    /\ \/ op[p].kind # "Clear" /\ DOMAIN op[p] = {"kind"} /\ ret[p].err = "Canceled"
       \/ op[p].kind = "Clear" /\ "snap" \notin DOMAIN op[p]

\* C10: an Insert, Update, Delete or Clear whose context is canceled during
\* the latency returns Canceled, and the id sequence, the map and the file
\* are as they were before the call; also for the persistence step of Clear.
CanceledChangesNothing ==
    \A p \in Procs :
        (CanceledInLatency(p) /\ clean) => (ret[p].err = "Canceled" /\ Table = pre[p])

\* the handler of Find has run and returned
FindReturned(p) ==
    Returned(p, "Find") /\ "page" \in DOMAIN op[p] /\ ~op[p].edited
Min(a, b) == IF a < b THEN a ELSE b

\* C8: for perPage > 0 and page >= 1 Find returns as total the number of
\* records that match, and the slice [start, end) of them with
\* start = (page-1)*perPage and end = min(start+perPage, total), or no
\* record when start is past the last index; of 5 records by 2, page 1 has
\* 2 records, page 3 has 1 and page 4 has none, each with total 5.
PageIsSlice ==
    \A p \in Procs :
        (FindReturned(p) /\ op[p].perPage > 0 /\ op[p].page >= 1) =>
            LET matching == SelectSeq([i \in 1..Len(ids) |-> decode(items[ids[i]])],
                                      LAMBDA it : it.Payload \in op[p].lookup)
                all == IF Len(op[p].sort) > 0
                       THEN sortSort(matching, op[p].sort, op[p].shell)
                       ELSE matching
                total == Len(all)
                start == (op[p].page - 1) * op[p].perPage
                end == Min(start + op[p].perPage, total)
                n == Len(ret[p].list)
            IN  /\ ret[p].err = "nil"
                /\ ret[p].total = total
                /\ IF start > total - 1 THEN n = 0
                   ELSE /\ n = end - start
                        /\ \A i \in 1..n : ret[p].list[i] = all[start + i]
                /\ (total = 5 /\ op[p].perPage = 2) =>
                      /\ op[p].page = 1 => n = 2
                      /\ op[p].page = 3 => n = 1
                      /\ op[p].page = 4 => n = 0

\* Find has returned page 3 of 5 matching records by 2: the last record
LastPageOfFive ==
    \E p \in Procs :
        /\ FindReturned(p) /\ op[p].perPage = 2 /\ op[p].page = 3
        /\ ret[p].total = 5 /\ Len(ret[p].list) = 1
        /\ ret[p].list[1].ID = ids[5]

\* C11: a successful Update(item, original) puts item's bytes under the id
\* of original and leaves the set of stored ids as it was, whatever the id
\* of item.
UpdateReplacesOriginal ==
    \A p \in Procs :
        (Returned(p, "Update") /\ ret[p].err = "nil") =>
            /\ DOMAIN items = DOMAIN pre[p].items
            /\ items[op[p].original.ID] = serialize(op[p].item)

\* C13: Find on an empty table returns total 0 and an empty page without
\* failing, for every page and perPage, those at or below 0 included.
EmptyTableEmptyPage ==
    \A p \in Procs :
        (FindReturned(p) /\ Len(ids) = 0) =>
            ret[p].err = "nil" /\ ret[p].total = 0 /\ ret[p].list = <<>>

\* C14: with perPage <= 0 Find returns every matching record, in order,
\* whatever the page.
NoPerPageWholeList ==
    \A p \in Procs :
        (FindReturned(p) /\ op[p].perPage <= 0) =>
            LET all == SelectSeq([i \in 1..Len(ids) |-> decode(items[ids[i]])],
                                 LAMBDA it : it.Payload \in op[p].lookup)
            IN  ret[p].err = "nil" /\ ret[p].total = Len(all) /\ ret[p].list = all

(* ------------- Insert alone, on a collection with a unique field ------ *)
\* callers that only insert; the uniqueness fields are those of Init
NextInsert ==
    \E p \in Procs :
        \/ Lock(p, "Insert")
        \/ Wait(p)
        \/ InsertCheck(p)
        \/ InsertStore(p)
        \/ Unlock(p)

SpecInsert == Init /\ [][NextInsert]_vars

\* C18: with a uniqueness field configured, after Inserts alone on a table
\* that started empty no two stored records have the same value of the
\* field, records of one batch included.
UniqueFieldHolds ==
    (Len(UniqueFields) > 0 /\ clean /\ Quiescent) =>
        \A j, k \in DOMAIN items :
            decode(items[j]).Payload = decode(items[k]).Payload => j = k

\* the records of list in non-decreasing order of the sort field, those
\* with the same value in the order they have in list
StableSorted(list) ==
    SelectSeq(list, LAMBDA it : Rank(it.Payload) = 1)
        \o SelectSeq(list, LAMBDA it : Rank(it.Payload) = 2)

\* C12: a Find with an ascending sort on one field that asks for the whole
\* list returns exactly the matching records, in non-decreasing order of the
\* field, records with equal values in their insertion order.
SortedStable ==
    \A p \in Procs :
        (FindReturned(p) /\ Len(op[p].sort) > 0
            /\ op[p].page = 1 /\ op[p].perPage = 0 - 1) =>
            LET matching == SelectSeq([i \in 1..Len(ids) |-> decode(items[ids[i]])],
                                      LAMBDA it : it.Payload \in op[p].lookup)
            IN  ret[p].err = "nil" /\ ret[p].list = StableSorted(matching)

\* C15: an Insert that returns the error of a failed serialization leaves
\* every id of the sequence with an entry in the map and every entry of the
\* map with an id in the sequence.
FailedInsertConsistent ==
    \A p \in Procs :
        (Returned(p, "Insert") /\ ret[p].err = "ErrEncode" /\ Consistent(pre[p])) =>
            Consistent(Table)

\* s without the first occurrence of id
RECURSIVE WithoutFirst(_, _)
WithoutFirst(s, id) ==
    IF s = <<>> THEN s
    ELSE IF Head(s) = id THEN Tail(s)
    ELSE <<Head(s)>> \o WithoutFirst(Tail(s), id)

\* the table in memory once the mutation of p's step is applied, before
\* the persistence cycle of that step
Applied(p) ==
    CASE pc[p] = "store" ->
            LET it == op[p].batch[op[p].i]
            IN  [ids |-> Append(ids, it.ID),
                 items |-> MapSet(items, it.ID, serialize(it))]
      [] pc[p] = "body" /\ op'[p].kind = "Update" ->
            [ids |-> ids,
             items |-> MapSet(items, op'[p].item.ID, serialize(op'[p].item))]
      [] pc[p] = "body" /\ op'[p].kind = "Delete" ->
            [ids |-> WithoutFirst(ids, op'[p].item.ID),
             items |-> MapDelete(items, op'[p].item.ID)]
      [] pc[p] = "clear" ->
            [ids |-> WithoutFirst(ids, op[p].snap[op[p].i]),
             items |-> MapDelete(items, op[p].snap[op[p].i])]
      [] OTHER -> [ids |-> ids, items |-> items]

\* a step of writer p in which something failed ends p's operation with
\* a panic or the serialization error; after a panic the table in memory
\* is the one the step's mutation made, and the file is the old one (the
\* write failed) or holds that table's map (the reload failed)
FailureStep(p, differs) ==
    (p \in writer /\ failures' > failures) =>
        /\ pc'[p] = "unlock"
        /\ ret'[p].err \in {"panic", "ErrEncode"}
        /\ ret'[p].err = "panic" =>
              /\ ids' = Applied(p).ids /\ items' = Applied(p).items
              /\ \/ file' = file
                 \/ file' = [exists |-> TRUE, data |-> serializeMap(items')]
              /\ (differs /\ Applied(p).items # items) =>
                    (~file'.exists \/ decodeMap(file'.data) # items')

Acts(p) == pc'[p] # pc[p] \/ ret'[p] # ret[p]

\* C19: no step of a Find, from taking the read lock to releasing it, and
\* no change a caller makes to a record Find returned, changes the id
\* sequence, the record map or the database file.
FindChangesNothing ==
    [][\A p \in Procs :
          (Acts(p) /\ (op[p].kind = "Find" \/ op'[p].kind = "Find")) =>
              (ids' = ids /\ items' = items /\ file' = file)]_vars

\* the caller has changed a returned record, which now differs from the
\* stored one
ReturnedRecordEdited ==
    \E p \in Procs :
        /\ Returned(p, "Find") /\ "edited" \in DOMAIN op[p] /\ op[p].edited
        /\ \E j \in 1..Len(ret[p].list) :
              ret[p].list[j] # decode(items[ret[p].list[j].ID])

\* C16: the uniqueness sub-query of Insert runs under the write lock its
\* caller holds and takes no lock; every caller that has acquired the lock,
\* for Insert, Update, Delete, Clear or Find, releases it in the end,
\* whatever its operation returns.
LockReleased == \A p \in Procs : InCS(p) ~> ~InCS(p)

\* an Insert on a collection with a uniqueness field has run its
\* sub-queries under the write lock and goes on to store its records
SubQueryUnderLock ==
    \E p \in Procs :
        /\ p \in writer /\ pc[p] = "store" /\ Len(UniqueFields) > 0
        /\ Len(op[p].batch) > 0

====
